---- MODULE Spec2Model ----
(***************************************************************************)
(* pysmhi: the fetcher (SmhiAPI.async_get_data), the point forecast facade *)
(* (SMHIPointForecast) and the forecast transformation functions           *)
(* (_create_forecast, get_daily_forecast, get_bidaily_forecast,            *)
(* get_hourly_forecast).                                                   *)
(*                                                                         *)
(* Times are integer seconds.  A precipitation amount is an exact rational *)
(* <<numerator, denominator>>; Python computes the same quotients and sums *)
(* in binary floating point.                                               *)
(***************************************************************************)
EXTENDS Integers, Sequences, FiniteSets, TLC

\* ------------------------------------------------------------------ bounds

\* longest raw time series drawn as an input of the transformation functions
MaxLen == 4

\* last second the clock is followed to
MaxTime == 67

\* facade calls followed
MaxCalls == 2

\* seconds the concurrent calls are followed for
MaxRaceTime == 21

\* ------------------------------------------------------- program constants

\* (valid_time - previous_valid_time).total_seconds() == 3600
HourSeconds == 3600

Day == 24 * HourSeconds

\* ---------------------------------------------------------------- numbers

Abs(x) == IF x < 0 THEN -x ELSE x

RECURSIVE GCD(_, _)
GCD(a, b) == IF b = 0 THEN a ELSE GCD(b, a % b)

\* the rational n/d in lowest terms with a positive denominator (d # 0)
Rat(n, d) ==
    LET g == GCD(Abs(n), Abs(d))
        s == IF d < 0 THEN -1 ELSE 1
    IN  <<(s * n) \div g, (s * d) \div g>>

Zero == <<0, 1>>

RatAdd(x, y) == Rat(x[1] * y[2] + y[1] * x[2], x[2] * y[2])

RatMul(x, y) == Rat(x[1] * y[1], x[2] * y[2])

\* Python's round(n/d) for d > 0: to the nearest integer, ties to the even one
PyRound(n, d) ==
    LET q == n \div d
        r == n - q * d
    IN  IF 2 * r < d THEN q
        ELSE IF 2 * r > d THEN q + 1
        ELSE IF q % 2 = 0 THEN q ELSE q + 1

\* round(x, 2) of a rational x
Round2(x) == Rat(PyRound(100 * x[1], x[2]), 100)

\* sum(pmean): left to right, starting from 0
RECURSIVE PySum(_)
PySum(xs) == IF xs = <<>> THEN Zero ELSE RatAdd(PySum(SubSeq(xs, 1, Len(xs) - 1)), xs[Len(xs)])

\* --------------------------------------------------------------- outcomes

\* what a call ends in: a returned value or a raised exception.  message is the
\* HTTP status str(exception) shows (0: it shows none), cause the type of its
\* __cause__ and root the HTTP status of the response error ending that chain
Return(v) ==
    [kind |-> "return", value |-> v, exc |-> "", message |-> 0, cause |-> "", root |-> 0]

\* raise e
Raise(e) ==
    [kind |-> "raise", value |-> <<>>, exc |-> e, message |-> 0, cause |-> "", root |-> 0]

\* raise e from error, with no arguments
RaiseFrom(e, c, r) ==
    [kind |-> "raise", value |-> <<>>, exc |-> e, message |-> 0, cause |-> c, root |-> r]

NoOutcome ==
    [kind |-> "none", value |-> <<>>, exc |-> "", message |-> 0, cause |-> "", root |-> 0]

\* ----------------------------------------------------------------- payload

\* a key of the SMHIForecast dict that was never set (TypedDict, total=False)
Absent == <<0, 0>>

\* datetime.hour of a valid time (the payload's times are UTC)
HourOf(t) == (t \div HourSeconds) % 24

\* the calendar day of a valid time
DateOf(t) == t \div Day

\* first valid time of a drawn series: 10:00, 11:00 and 23:00 of day 1
StartSet == {Day + 10 * HourSeconds, Day + 11 * HourSeconds, Day + 23 * HourSeconds}

\* step from one raw entry to the next, in provider order
GapSet == {-HourSeconds, 0, HourSeconds, 2 * HourSeconds, 12 * HourSeconds}

\* raw pmean values
PSet == {1, 2}

Entry(t, p) == [validTime |-> t, pmean |-> p]

\* the series of n entries that starts at t and goes on by the steps gs, with
\* the pmean values ps
RECURSIVE Series(_, _, _, _)
Series(n, t, ps, gs) ==
    IF n = 0 THEN <<>>
    ELSE IF n = 1 THEN <<Entry(t, ps[1])>>
    ELSE LET s == Series(n - 1, t, ps, gs)
         IN  Append(s, Entry(s[n - 1].validTime + gs[n - 1], ps[n]))

\* the JSON document: timeSeries (hasSeries: the key is there), approvedTime
\* and referenceTime (there and not empty)
Payload(hs, ts, at, rt) ==
    [hasSeries |-> hs, timeSeries |-> ts, approvedTime |-> at, referenceTime |-> rt]

\* payloads with one of the three fields missing or empty
OddPayloads ==
    {Payload(FALSE, <<>>, TRUE, TRUE), Payload(FALSE, <<>>, FALSE, FALSE)}
    \cup {Payload(TRUE, ts, at, rt) :
              ts \in {<<>>, <<Entry(Day + 11 * HourSeconds, 1), Entry(Day + 12 * HourSeconds, 2)>>},
              at \in BOOLEAN, rt \in BOOLEAN}

\* a second entry 20 minutes after the first one
CloseEntries ==
    Payload(TRUE, <<Entry(Day + 11 * HourSeconds, 1),
                    Entry(Day + 11 * HourSeconds + 20 * 60, 1)>>, TRUE, TRUE)

\* ------------------------------------------------------------- normalizer

\* hours_between_forecast of entry i
HoursBetween(ts, i) ==
    IF i = 1 THEN 1
    ELSE PyRound(ts[i].validTime - ts[i - 1].validTime, HourSeconds)

\* float(temp_forecast["pmean"]) / hours_between_forecast
MeanPrecipitation(p, h) == Rat(p, h)

Forecast(e, h) ==
    [valid_time |-> e.validTime,
     mean_precipitation |-> MeanPrecipitation(e.pmean, h),
     total_precipitation |-> Absent]

\* the loop of _create_forecast from entry i on, forecasts being the list so far
RECURSIVE CreateLoop(_, _, _)
CreateLoop(ts, i, forecasts) ==
    IF i > Len(ts) THEN Return(forecasts)
    ELSE LET h == HoursBetween(ts, i)
         IN  IF h = 0 THEN Raise("ZeroDivisionError")
             ELSE CreateLoop(ts, i + 1, Append(forecasts, Forecast(ts[i], h)))

create_forecast(data) ==
    IF ~data.hasSeries THEN Raise("KeyError")
    ELSE CreateLoop(data.timeSeries, 1, <<>>)

\* ------------------------------------------------------------- aggregator

\* sorted(forecasts, key=valid_time): stable insertion of x into a sorted list
RECURSIVE Insert(_, _)
Insert(s, x) ==
    IF s = <<>> THEN <<x>>
    ELSE IF s[Len(s)].valid_time <= x.valid_time THEN Append(s, x)
    ELSE Append(Insert(SubSeq(s, 1, Len(s) - 1), x), s[Len(s)])

RECURSIVE Sorted(_)
Sorted(s) ==
    IF s = <<>> THEN <<>>
    ELSE Insert(Sorted(SubSeq(s, 1, Len(s) - 1)), s[Len(s)])

\* the twice-daily test copied into the daily loop
DailyHours_both == {12, 0}

\* if forecast["valid_time"].hour == 12
DailyHours == {12}

\* if forecast["valid_time"].hour in {12, 0}
BidailyHours == {12, 0}

\* the accumulator kept after an emission
AfterEmit_keep(pmean) == pmean

\* pmean = [] after an emission
AfterEmit(pmean) == <<>>

\* new_forecast["total_precipitation"] = sum(pmean)
Emitted(forecast, pmean) == [forecast EXCEPT !.total_precipitation = PySum(pmean)]

\* the loop of get_daily_forecast / get_bidaily_forecast over s[i..]
RECURSIVE DailyLoop(_, _, _, _, _)
DailyLoop(s, i, daily_forecasts, pmean, hours) ==
    IF i > Len(s) THEN daily_forecasts
    ELSE IF HourOf(s[i].valid_time) \in hours
         THEN DailyLoop(s, i + 1, Append(daily_forecasts, Emitted(s[i], pmean)),
                        AfterEmit(pmean), hours)
         ELSE DailyLoop(s, i + 1, daily_forecasts,
                        Append(pmean, s[i].mean_precipitation), hours)

Aggregate(data, hours) ==
    LET c == create_forecast(data)
    IN  IF c.kind = "raise" THEN c
        ELSE LET s == Sorted(c.value)
             IN  IF s = <<>> THEN Raise("IndexError")
                 ELSE Return(DailyLoop(s, 2, <<s[1]>>, <<>>, hours))

get_daily_forecast(data) == Aggregate(data, DailyHours)

get_bidaily_forecast(data) == Aggregate(data, BidailyHours)

\* any gap of an hour or more taken as the next hour
IsNextHour_atleast(previous_valid_time, valid_time) ==
    valid_time - previous_valid_time >= HourSeconds

\* (forecast["valid_time"] - previous_valid_time).total_seconds() == 3600
IsNextHour(previous_valid_time, valid_time) ==
    valid_time - previous_valid_time = HourSeconds

\* the loop of get_hourly_forecast over s[i..]: append, or break
RECURSIVE HourlyLoop(_, _, _, _)
HourlyLoop(s, i, hourly_forecasts, previous_valid_time) ==
    IF i > Len(s) THEN hourly_forecasts
    ELSE IF IsNextHour(previous_valid_time, s[i].valid_time)
         THEN HourlyLoop(s, i + 1, Append(hourly_forecasts, s[i]), s[i].valid_time)
         ELSE hourly_forecasts

get_hourly_forecast(data) ==
    LET c == create_forecast(data)
    IN  IF c.kind = "raise" THEN c
        ELSE LET s == Sorted(c.value)
             IN  IF s = <<>> THEN Raise("IndexError")
                 ELSE Return(HourlyLoop(s, 2, <<s[1]>>, s[1].valid_time))

\* ----------------------------------------------------------------- facade

Facades == {"f1", "f2", "f3"}

\* the longitude and latitude strings each facade object is built with, in
\* units of 1e-7 degrees: f1 and f2 name the same point, f3 another one
Arguments(f) ==
    CASE f = "f1" -> <<161503500, 585707840>>
      [] f = "f2" -> <<161503504, 585707840>>
      [] OTHER    -> <<171503500, 585707840>>

\* cutting the 7th decimal off instead
Canonical_trunc(x) == x \div 10

\* str(round(float(x), 6)), in units of 1e-6 degrees
Canonical(x) == PyRound(x, 10)

\* self._longitude, self._latitude
Coordinate(f) == <<Canonical(Arguments(f)[1]), Canonical(Arguments(f)[2])>>

\* API_POINT_FORECAST.format(self._longitude, self._latitude)
Url(f) == Coordinate(f)

Urls == {Url(f) : f \in Facades}

\* the operations SMHIPointForecast defines
Operations == {"daily", "hourly"}

\* the transformation an operation applies to the fetched document
Transform(op, json_data) ==
    IF op = "daily" THEN get_daily_forecast(json_data)
    ELSE get_hourly_forecast(json_data)

\* ndigits of round(float(longitude), 6)
Places == 6

\* 1 degree in the unit of a rounded coordinate, and in the unit of an argument
Scale == 10 ^ Places

ArgScale == 10 * Scale

\* the last k decimal digits of v >= 0, most significant first
RECURSIVE Digits(_, _)
Digits(v, k) == IF k = 0 THEN <<>> ELSE Append(Digits(v \div 10, k - 1), v % 10)

\* repr of a float prints the shortest fraction: no trailing zeros, one digit
\* at least
RECURSIVE Strip(_)
Strip(ds) ==
    IF Len(ds) > 1 /\ ds[Len(ds)] = 0 THEN Strip(SubSeq(ds, 1, Len(ds) - 1)) ELSE ds

\* str(y) of a float y of c / 10^6 degrees, |y| >= 0.0001: sign, whole part and
\* the digits after the point
Str(c) ==
    [neg |-> c < 0, whole |-> Abs(c) \div Scale, frac |-> Strip(Digits(Abs(c) % Scale, Places))]

\* the digits ds after the point as a number of 10^-k
RECURSIVE FracValue(_, _)
FracValue(ds, k) ==
    IF k = 0 THEN 0
    ELSE IF ds = <<>> THEN 0
    ELSE ds[1] * 10 ^ (k - 1) + FracValue(Tail(ds), k - 1)

\* float(s) of a decimal string s, in units of 1e-7 degrees
Float(s) ==
    (IF s.neg THEN -1 ELSE 1) * (s.whole * ArgScale + FracValue(s.frac, Places + 1))

\* round(y, 6) of the float y nearest to x / 10^7 degrees, in units of 1e-6
\* degrees: a 7th decimal of 5 goes the way the binary value of y lies, which is
\* either way
Rounded(x) ==
    IF x % 10 = 5 THEN {x \div 10, x \div 10 + 1} ELSE {Canonical(x)}

\* longitude and latitude arguments a facade object is built with, in units of
\* 1e-7 degrees
LongitudeSet == {161234567, 161234564, 161234565, 161234570, 161000000, -161234567, 1799999996}

LatitudeSet == {581234567, 585707840, 581234565, -581234567}

\* SMHIPointForecast(longitude, latitude) where float(longitude) = lon / 10^7,
\* float(latitude) = lat / 10^7 and the rounding gives clon, clat
NewPoint(lon, lat, clon, clat) ==
    [longitude |-> lon, latitude |-> lat,
     _longitude |-> Str(clon), _latitude |-> Str(clat), url |-> <<>>]

\* ---------------------------------------------------------------- fetcher

\* retry: int = 3
Retry == 3

\* await asyncio.sleep(7)
Cooldown == 7

\* one retry too many
CanRetry_inclusive(retry) == retry >= 0

\* if retry > 0
CanRetry(retry) == retry > 0

\* non-success statuses the server answers with
ErrorStatuses == {404, 429, 500}

\* documents the server answers with
ServedPayloads ==
    OddPayloads
    \cup {Payload(TRUE, <<Entry(Day + 11 * HourSeconds, 1), Entry(Day + 11 * HourSeconds, 1)>>,
                  TRUE, TRUE)}

\* ------------------------------------------------------------------ state

Tasks == {"t1", "t2"}

\* the tasks that call one facade operation after the other
Callers == {"t1"}

\* seconds the clock advances by in one step
TickSet == {Cooldown, 60}

VARIABLES
    data,     \* the payload handed to a transformation function
    last,     \* the function applied last and what it ended in
    now,      \* the clock, in seconds
    task,     \* per task: the facade call it is in
    fetches,  \* per URL: when a facade call last invoked the fetcher, and on which facade
    calls,    \* number of facade calls made so far
    points    \* the facade objects constructed so far, oldest first

vars == <<data, last, now, task, fetches, calls, points>>

pointVars == <<points>>

aggVars == <<data, last>>

fetchVars == <<now, task, fetches, calls>>

NoCall == [op |-> "none", out |-> NoOutcome]

\* a task that is in no call.  pc: idle, get (about to send a request), sleep
\* (in asyncio.sleep), done (the call has returned or raised).  attempts: requests
\* made, sleeps: sleeps finished, lastGet: when the last request was made.
\* api: what async_get_data ended in, out: what the facade operation ended in.
IdleTask ==
    [pc |-> "idle", facade |-> "", op |-> "", retry |-> 0, attempts |-> 0,
     sleeps |-> 0, lastGet |-> 0, api |-> NoOutcome, out |-> NoOutcome]

NoFetch == [last |-> -1, by |-> ""]

InitFetch ==
    /\ now = 0
    /\ task = [t \in Tasks |-> IdleTask]
    /\ fetches = [u \in Urls |-> NoFetch]
    /\ calls = 0

Init ==
    /\ data = Payload(TRUE, <<>>, TRUE, TRUE)
    /\ last = NoCall
    /\ InitFetch
    /\ points = <<>>

\* async_get_daily_forecast / async_get_hourly_forecast is called on facade f:
\* it calls self._api.async_get_data(url) with retry = 3
Call(t, f, op) ==
    /\ task[t].pc = "idle"
    /\ calls < MaxCalls
    /\ calls' = calls + 1
    /\ task' = [task EXCEPT ![t] =
                   [IdleTask EXCEPT !.pc = "get", !.facade = f, !.op = op, !.retry = Retry]]
    /\ fetches' = [fetches EXCEPT ![Url(f)] = [last |-> now, by |-> f]]
    /\ UNCHANGED <<now, aggVars, pointVars>>

\* async_get_twice_daily_forecast is called on facade f: the class defines no
\* such method
CallTwiceDaily(t, f) ==
    /\ task[t].pc = "idle"
    /\ calls < MaxCalls
    /\ calls' = calls + 1
    /\ task' = [task EXCEPT ![t] =
                   [IdleTask EXCEPT !.pc = "done", !.facade = f, !.op = "twice_daily",
                                    !.out = Raise("AttributeError")]]
    /\ UNCHANGED <<now, fetches, aggVars, pointVars>>

\* the request is answered with a success status and document json_data:
\* async_get_data returns it and the facade operation transforms it
GetOk(t, json_data) ==
    /\ task[t].pc = "get"
    /\ task' = [task EXCEPT ![t].pc = "done",
                            ![t].attempts = @ + 1,
                            ![t].lastGet = now,
                            ![t].api = Return(<<>>),
                            ![t].out = Transform(task[t].op, json_data)]
    /\ UNCHANGED <<now, fetches, calls, aggVars, pointVars>>

\* the request is answered with a non-success status: raise_for_status raises,
\* and the handler sleeps before a retry or raises SMHIError from the error, which
\* the facade operation re-raises as SmhiForecastException from it
GetHttpError(t, status) ==
    /\ task[t].pc = "get"
    /\ task' = [task EXCEPT ![t] =
                   IF CanRetry(task[t].retry)
                   THEN [@ EXCEPT !.pc = "sleep", !.attempts = @ + 1, !.lastGet = now]
                   ELSE [@ EXCEPT !.pc = "done", !.attempts = @ + 1, !.lastGet = now,
                                  !.api = RaiseFrom("SMHIError", "ClientResponseError", status),
                                  !.out = RaiseFrom("SmhiForecastException", "SMHIError", status)]]
    /\ UNCHANGED <<now, fetches, calls, aggVars, pointVars>>

\* session.get raises before there is a response: the handler reads resp.status
\* of the unbound resp, and the UnboundLocalError passes every except clause
GetTransportError(t) ==
    /\ task[t].pc = "get"
    /\ task' = [task EXCEPT ![t].pc = "done",
                            ![t].attempts = @ + 1,
                            ![t].lastGet = now,
                            ![t].api = Raise("UnboundLocalError"),
                            ![t].out = Raise("UnboundLocalError")]
    /\ UNCHANGED <<now, fetches, calls, aggVars, pointVars>>

\* asyncio.sleep(7) is over: return await self.async_get_data(url, retry - 1)
Wake(t) ==
    /\ task[t].pc = "sleep"
    /\ now >= task[t].lastGet + Cooldown
    /\ task' = [task EXCEPT ![t].pc = "get", ![t].retry = @ - 1, ![t].sleeps = @ + 1]
    /\ UNCHANGED <<now, fetches, calls, aggVars, pointVars>>

\* the caller has its result or exception
Done(t) ==
    /\ task[t].pc = "done"
    /\ task' = [task EXCEPT ![t] = IdleTask]
    /\ UNCHANGED <<now, fetches, calls, aggVars, pointVars>>

\* time passes
Tick(d) ==
    /\ now + d <= MaxTime
    /\ now' = now + d
    /\ UNCHANGED <<task, fetches, calls, aggVars, pointVars>>

Next ==
    \/ \E t \in Callers, f \in Facades, op \in Operations : Call(t, f, op)
    \/ \E t \in Callers, f \in Facades : CallTwiceDaily(t, f)
    \/ \E t \in Callers, json_data \in ServedPayloads : GetOk(t, json_data)
    \/ \E t \in Callers, status \in ErrorStatuses : GetHttpError(t, status)
    \/ \E t \in Callers : GetTransportError(t)
    \/ \E t \in Callers : Wake(t)
    \/ \E t \in Callers : Done(t)
    \/ \E d \in TickSet : Tick(d)

Spec == Init /\ [][Next]_vars

\* ------------------------------------------------------- concurrent calls

\* two tasks of one event loop, each in at most one facade call: a task runs
\* until its next await (session.get, asyncio.sleep), where the other may run;
\* the server answers with one document or with 429 Too Many Requests
RacePayloads == {Payload(TRUE, <<Entry(Day + 11 * HourSeconds, 1)>>, TRUE, TRUE)}

RaceStatuses == {429}

NextRace ==
    \/ \E t \in Tasks, f \in Facades, op \in Operations : Call(t, f, op)
    \/ \E t \in Tasks, json_data \in RacePayloads : GetOk(t, json_data)
    \/ \E t \in Tasks, status \in RaceStatuses : GetHttpError(t, status)
    \/ \E t \in Tasks : GetTransportError(t)
    \/ \E t \in Tasks : Wake(t)
    \/ \E d \in TickSet : Tick(d) /\ now' <= MaxRaceTime

SpecRace == Init /\ [][NextRace]_vars

\* ------------------------------------------------- facade construction

\* SMHIPointForecast(longitude, latitude) with decimal strings of lon / 10^7 and
\* lat / 10^7 degrees
Construct(lon, lat) ==
    /\ points = <<>>
    /\ \E clon \in Rounded(lon), clat \in Rounded(lat) :
           points' = <<NewPoint(lon, lat, clon, clat)>>
    /\ UNCHANGED <<aggVars, fetchVars>>

\* SMHIPointForecast(p._longitude, p._latitude) with the strings of the first
\* object p
Rebuild ==
    /\ Len(points) = 1
    /\ LET lon == Float(points[1]._longitude)
           lat == Float(points[1]._latitude)
       IN  \E clon \in Rounded(lon), clat \in Rounded(lat) :
               points' = Append(points, NewPoint(lon, lat, clon, clat))
    /\ UNCHANGED <<aggVars, fetchVars>>

\* API_POINT_FORECAST.format(self._longitude, self._latitude) in a facade
\* operation of object i
FormatUrl(i) ==
    /\ points[i].url = <<>>
    /\ points' = [points EXCEPT ![i].url = <<points[i]._longitude, points[i]._latitude>>]
    /\ UNCHANGED <<aggVars, fetchVars>>

NextPoint ==
    \/ \E lon \in LongitudeSet, lat \in LatitudeSet : Construct(lon, lat)
    \/ Rebuild
    \/ \E i \in 1..Len(points) : FormatUrl(i)

SpecPoint == Init /\ [][NextPoint]_vars

\* ------------------------------------------- the transformation functions

InitAgg ==
    /\ \/ data \in OddPayloads
       \/ \E n \in 0..MaxLen :
              \E t \in StartSet, ps \in [1..n -> PSet], gs \in [1..(n - 1) -> GapSet] :
                  data = Payload(TRUE, Series(n, t, ps, gs), TRUE, TRUE)
       \/ data = CloseEntries
    /\ last = NoCall
    /\ InitFetch
    /\ points = <<>>

CreateForecast ==
    /\ last = NoCall
    /\ last' = [op |-> "create", out |-> create_forecast(data)]
    /\ UNCHANGED <<data, fetchVars, pointVars>>

GetDaily ==
    /\ last = NoCall
    /\ last' = [op |-> "daily", out |-> get_daily_forecast(data)]
    /\ UNCHANGED <<data, fetchVars, pointVars>>

GetBidaily ==
    /\ last = NoCall
    /\ last' = [op |-> "bidaily", out |-> get_bidaily_forecast(data)]
    /\ UNCHANGED <<data, fetchVars, pointVars>>

GetHourly ==
    /\ last = NoCall
    /\ last' = [op |-> "hourly", out |-> get_hourly_forecast(data)]
    /\ UNCHANGED <<data, fetchVars, pointVars>>

NextAgg == CreateForecast \/ GetDaily \/ GetBidaily \/ GetHourly

SpecAgg == InitAgg /\ [][NextAgg]_vars

\* ------------------------------------------------- claims on the aggregator

\* the payload normalizes to a non-empty sequence
Normalizes(d) ==
    /\ create_forecast(d).kind = "return"
    /\ create_forecast(d).value # <<>>

\* the valid_time-sorted normalized sequence of a payload
SortedOf(d) == Sorted(create_forecast(d).value)

HourApart(s, i) == s[i + 1].valid_time - s[i].valid_time = 3600

\* length of the longest leading run of s with consecutive records one hour apart
LeadingRun(s) ==
    CHOOSE k \in 1..Len(s) :
        /\ \A i \in 1..(k - 1) : HourApart(s, i)
        /\ k = Len(s) \/ ~HourApart(s, k)

\* C4: hourly(seq) is the longest leading prefix of the sorted sequence in which
\* consecutive records are exactly one hour apart; nothing after the first other
\* gap is included.
C4_HourlyLongestPrefix ==
    (last.op = "hourly" /\ Normalizes(data)) =>
        /\ last.out.kind = "return"
        /\ last.out.value = SubSeq(SortedOf(data), 1, LeadingRun(SortedOf(data)))

\* C4 witness: the result stops at a gap after which records are hourly again
C4_Witness ==
    /\ last.op = "hourly"
    /\ last.out.kind = "return"
    /\ Len(last.out.value) = 2
    /\ Len(SortedOf(data)) = 4
    /\ ~HourApart(SortedOf(data), 2)
    /\ HourApart(SortedOf(data), 3)

\* the boundary hours of the claims: 12 for daily, 0 or 12 for twice-daily
ClaimHours(op) == IF op = "daily" THEN {12} ELSE {0, 12}

\* positions after the anchor whose hour is a boundary hour
Boundaries(s, hours) == {i \in 2..Len(s) : HourOf(s[i].valid_time) \in hours}

\* position in the output of the record emitted for source position i
OutPos(I, i) == 1 + Cardinality({j \in I : j <= i})

\* C5: daily and twice-daily give the anchor seq[0] unmodified, then in encounter
\* order exactly one record per later boundary-hour record: 1 + the number of
\* boundary-hour records after the anchor.
C5_AnchorPlusBoundaries ==
    (last.op \in {"daily", "bidaily"} /\ Normalizes(data)) =>
        LET s == SortedOf(data)
            I == Boundaries(s, ClaimHours(last.op))
            r == last.out.value
        IN  /\ last.out.kind = "return"
            /\ Len(r) = 1 + Cardinality(I)
            /\ r[1] = s[1]
            /\ \A i \in I : r[OutPos(I, i)].valid_time = s[i].valid_time

\* C5 witness: a daily result of the anchor and two 12:00 records out of four
C5_Witness ==
    /\ last.op = "daily"
    /\ last.out.kind = "return"
    /\ Len(last.out.value) = 3
    /\ Len(SortedOf(data)) = 4
    /\ HourOf(SortedOf(data)[1].valid_time) # 12

\* the sum of mean_precipitation of s[lo..hi]
RECURSIVE SumRange(_, _, _)
SumRange(s, lo, hi) ==
    IF lo > hi THEN Zero
    ELSE RatAdd(SumRange(s, lo, hi - 1), s[hi].mean_precipitation)

\* the previous emission before position i, or the anchor
PrevEmit(I, i) == IF \E j \in I : j < i
                  THEN CHOOSE j \in I : j < i /\ \A k \in I : k < i => k <= j
                  ELSE 1

InDay(t, D) == D * Day <= t /\ t <= D * Day + 23 * HourSeconds

\* hours since the previous raw entry (1 for the first entry)
HoursSincePrevious(ts, i) ==
    IF i = 1 THEN <<1, 1>> ELSE Rat(ts[i].validTime - ts[i - 1].validTime, HourSeconds)

RECURSIVE DayPrecipitation(_, _, _)
DayPrecipitation(ts, n, D) ==
    IF n = 0 THEN Zero
    ELSE IF InDay(ts[n].validTime, D)
         THEN RatAdd(DayPrecipitation(ts, n - 1, D),
                     RatMul(<<ts[n].pmean, 1>>, HoursSincePrevious(ts, n)))
         ELSE DayPrecipitation(ts, n - 1, D)

\* C7: the daily record emitted at 12:00 of day D has total_precipitation equal to
\* the precipitation of the whole day D: the sum over the raw entries of D (00:00
\* to 23:00) of pmean times the hours since the previous entry, rounded to 2
\* decimals.
C7_TotalIsWholeDay ==
    (last.op = "daily" /\ last.out.kind = "return") =>
        \A j \in 2..Len(last.out.value) :
            last.out.value[j].total_precipitation =
                Round2(DayPrecipitation(data.timeSeries, Len(data.timeSeries),
                                        DateOf(last.out.value[j].valid_time)))

\* --------------------------------------------------- claims on the normalizer

\* C10: normalization fails with the malformed-data error exactly when the payload
\* has no or an empty time series, or neither an approved nor a reference time.
C10_MalformedExactly ==
    last.op = "create" =>
        ((last.out.kind = "raise" /\ last.out.exc = "SmhiForecastException")
            <=> (\/ ~data.hasSeries
                 \/ data.timeSeries = <<>>
                 \/ (~data.approvedTime /\ ~data.referenceTime)))

\* ---------------------------------------------------- claims on the fetcher

\* C1: one fetch makes its attempts one after the other, sleeps the cooldown of 7
\* before each retry and stops at the first success or the 4th failure: a success
\* comes after 1 to 4 attempts, SMHIError only after exactly 4, and there is no
\* 5th attempt.
C1_BoundedSequentialRetries ==
    \A t \in Tasks :
        LET c == task[t]
        IN  /\ c.attempts <= 4
            /\ c.pc = "get" =>
                   /\ c.sleeps = c.attempts
                   /\ c.attempts >= 1 => now >= c.lastGet + 7
            /\ c.pc = "sleep" => (c.attempts \in 1..3 /\ c.sleeps = c.attempts - 1)
            /\ (c.pc = "done" /\ c.api.kind = "return") =>
                   (c.attempts \in 1..4 /\ c.sleeps = c.attempts - 1)
            /\ (c.pc = "done" /\ c.api.exc = "SMHIError") =>
                   (c.attempts = 4 /\ c.sleeps = 3)

\* C1 witness: 3 failures and then a success, after exactly 4 attempts
C1_Witness ==
    \E t \in Tasks :
        /\ task[t].pc = "done"
        /\ task[t].api.kind = "return"
        /\ task[t].attempts = 4
        /\ task[t].sleeps = 3

\* a step in which task t calls a facade operation that exists
Starts(t) ==
    /\ task[t].pc = "idle"
    /\ task'[t].pc # "idle"
    /\ task'[t].op \in {"daily", "hourly"}

\* C2: a call for key k invokes the fetcher if and only if no fetch for k is
\* recorded or the last one is at least 60 s old; within 60 s it makes no request.
C2_FetchOnlyAfterCooldown ==
    [][\A t \in Tasks :
          Starts(t) =>
              LET h == fetches[Url(task'[t].facade)]
              IN  task'[t].pc = "get" <=> (h.last = -1 \/ now - h.last >= 60)]_vars

\* C3: two facade objects of one coordinate share the cooldown (a fetch through
\* one suppresses a fetch through the other within 60 s), and a fetch for one
\* coordinate never suppresses a fetch for another.
C3_CooldownSharedPerCoordinate ==
    [][\A t \in Tasks :
          Starts(t) =>
              LET f == task'[t].facade
                  h == fetches[Url(f)]
              IN  /\ (h.last # -1 /\ h.by # f /\ now - h.last < 60) => task'[t].pc # "get"
                  /\ (h.last = -1 \/ now - h.last >= 60) => task'[t].pc = "get"]_vars

\* ----------------------------------------------------- claims on the facade

\* C8: a facade operation ends in a returned sequence or in the umbrella
\* SmhiForecastException, and in nothing else.
C8_ReturnOrForecastError ==
    \A t \in Tasks :
        (task[t].pc = "done" /\ task[t].op \in {"daily", "hourly"}) =>
            \/ task[t].out.kind = "return"
            \/ task[t].out.kind = "raise" /\ task[t].out.exc = "SmhiForecastException"

\* C9: when every attempt is answered with a non-success status, the error the
\* fetcher raises and the error the facade operation raises carry the status of
\* the failing response.
C9_ErrorCarriesStatus ==
    \A t \in Tasks :
        (task[t].pc = "done" /\ task[t].api.exc = "SMHIError") =>
            /\ task[t].api.message = task[t].api.root
            /\ task[t].out.message = task[t].out.root

\* C11: a transport failure (no response yet) is handled like an HTTP error
\* status: retried up to 3 more times and, after the 4th failure, raised as
\* SMHIError and nothing else.
C11_TransportFailureRetried ==
    \A t \in Tasks :
        (task[t].pc = "done" /\ task[t].api.kind = "raise") =>
            /\ task[t].api.exc = "SMHIError"
            /\ task[t].attempts = 4
            /\ task[t].sleeps = 3

\* task u is inside a facade call for the URL of facade f: its request or its
\* retry sleep is in flight
InFlight(u, f) ==
    /\ task[u].pc \in {"get", "sleep"}
    /\ Url(task[u].facade) = Url(f)

\* C12: of two facade calls for one key that start within the same cooldown
\* window, the first still in flight, at most one decides to fetch and updates the
\* key's last-fetch time.
C12_OneFetchPerWindow ==
    [][\A t \in Tasks :
          (Starts(t) /\ \E u \in Tasks \ {t} : InFlight(u, task'[t].facade)) =>
              LET f == task'[t].facade
              IN  \/ now - fetches[Url(f)].last >= 60
                  \/ task'[t].pc # "get" /\ fetches'[Url(f)] = fetches[Url(f)]]_vars

\* the decimal string s names a number of at most 6 decimals that is a nearest
\* one to x / 10^7
NearestSix(s, x) ==
    /\ Len(s.frac) \in 1..6
    /\ s.frac[Len(s.frac)] # 0 \/ Len(s.frac) = 1
    /\ LET v == (IF s.neg THEN -1 ELSE 1) * (s.whole * 10000000 + FracValue(s.frac, 7))
       IN  /\ v % 10 = 0
           /\ v - x <= 5
           /\ x - v <= 5

\* C13: construction rounds longitude and latitude to the nearest value of 6
\* decimals (never cuts the 7th off), constructing again from the canonical
\* strings gives the same strings, and every URL is made of the canonical strings.
C13_CanonicalRoundedIdempotent ==
    /\ \A i \in 1..Len(points) :
           /\ NearestSix(points[i]._longitude, points[i].longitude)
           /\ NearestSix(points[i]._latitude, points[i].latitude)
           /\ points[i].url # <<>> =>
                  /\ NearestSix(points[i].url[1], points[i].longitude)
                  /\ NearestSix(points[i].url[2], points[i].latitude)
    /\ Len(points) = 2 =>
           /\ points[2]._longitude = points[1]._longitude
           /\ points[2]._latitude = points[1]._latitude

\* "16.1234567", "58.1234567" give "16.123457", "58.123457", these give
\* themselves, and both objects have built a URL
C13_Witness ==
    /\ Len(points) = 2
    /\ points[1].longitude = 161234567
    /\ points[1].latitude = 581234567
    /\ points[1]._longitude = [neg |-> FALSE, whole |-> 16, frac |-> <<1, 2, 3, 4, 5, 7>>]
    /\ points[1]._latitude = [neg |-> FALSE, whole |-> 58, frac |-> <<1, 2, 3, 4, 5, 7>>]
    /\ points[2].longitude = 161234570
    /\ points[2]._longitude = points[1]._longitude
    /\ points[1].url # <<>>
    /\ points[2].url = <<points[1]._longitude, points[1]._latitude>>

\* C14: for every series the normalizer goes through, the divisor
\* hours_between_forecast is at least 1 at every entry, so that the call returns
\* (no division by zero) and no rate is negative.
C14_DivisorAtLeastOne ==
    (last.op = "create" /\ data.hasSeries) =>
        /\ \A i \in 1..Len(data.timeSeries) : HoursBetween(data.timeSeries, i) >= 1
        /\ last.out.kind = "return"
        /\ \A j \in 1..Len(last.out.value) : last.out.value[j].mean_precipitation[1] >= 0

====
